---- MODULE Spec2Model ----
(***************************************************************************)
(* Model of the "krzyzyk" CosmWasm contract (src/src/contract.rs): a cw20  *)
(* ledger whose minter may also record a choice string per address.        *)
(* The persistent store is the state; every entry point call is one        *)
(* atomic action (a failed or aborted call leaves the store untouched).    *)
(***************************************************************************)
EXTENDS Integers, Sequences, FiniteSets, TLC

VARIABLES
    CONTRACT,       \* cw2 contract version item: <<>> or <<[contract, version]>>
    TOKEN_INFO,     \* cw20 TokenInfo item: <<>> (absent) or <<record>>
    GAME,           \* Map<&Addr, String>: Addr -> <<>> (absent) or <<option>>
    BALANCES,       \* cw20 balances: address -> amount
    call,           \* the last call made (entry point and its arguments)
    result,         \* the outcome of the last call
    lastChosen,     \* history: option of the latest successful ChooseOption per Addr
    replaced,       \* history: the entry the last call overwrote, <<>> if none
    writers,        \* history: the address texts whose ChooseOption succeeded, per Addr
    minted,         \* history: sum of the amounts of the successful Mints since instantiate
    given           \* history: the InstantiateMsg of the latest instantiate, <<>> if none

vars == <<CONTRACT, TOKEN_INFO, GAME, BALANCES, call, result,
          lastChosen, replaced, writers, minted, given>>

store == <<CONTRACT, TOKEN_INFO, GAME, BALANCES>>

----------------------------------------------------------------------------
(* Bounds and input sets *)

MaxSupply == 2

Senders == {"creator", "other"}

Options == {"Papier", "Kamien", ""}

Amounts == {0, 1, 2}

\* the texts a Mint names as recipient
Recipients == {"addrr0000", "x"}

\* InstantiateMsg values
Msgs == { [name |-> "Auto gen", symbol |-> "AUTO", decimals |-> 6],
          [name |-> "AUTO", symbol |-> "Auto gen", decimals |-> 18] }

\* Address texts a caller may pass: two spellings of one identity, another
\* identity, and a text that is no address.
AddrTexts == {"addrr0000", "ADDRR0000", "addrr0001", "x"}

CONTRACT_NAME == "crates.io:krzyzyk"
CONTRACT_VERSION == "CARGO_PKG_VERSION"

----------------------------------------------------------------------------
(* deps.api *)

\* Api::addr_canonicalize: <<>> is Err, <<c>> is Ok(c)
addr_canonicalize(text) ==
    CASE text = "addrr0000" -> <<0>>
      [] text = "ADDRR0000" -> <<0>>
      [] text = "addrr0001" -> <<1>>
      [] OTHER -> <<>>

\* Api::addr_humanize
addr_humanize(canonical) ==
    CASE canonical = 0 -> "addrr0000"
      [] canonical = 1 -> "addrr0001"

\* Api::addr_validate as used by execute_mint: <<>> is Err
addr_validate(text) ==
    IF addr_canonicalize(text) = <<>> THEN <<>> ELSE <<text>>

\* the keys GAME can hold
Addrs == { addr_humanize(c) : c \in {0, 1} }

\* the texts addr_validate accepts
ValidTexts == { t \in Recipients : addr_validate(t) # <<>> }

----------------------------------------------------------------------------
(* Calls and results *)

NoCall == [op |-> "none", sender |-> "", a |-> "", b |-> "", amount |-> 0,
           msg |-> [name |-> "", symbol |-> "", decimals |-> 0]]

Ok(data) == [outcome |-> "Ok", data |-> data]
Err(kind) == [outcome |-> kind, data |-> <<>>]

\* an unwrap() of Err or None aborts the call
Panic == Err("Panic")

----------------------------------------------------------------------------
(* instantiate *)

\* instantiate_data with name and symbol taken from each other's field
instantiate_data_swapped(sender, msg) ==
    [ name |-> msg.symbol,
      symbol |-> msg.name,
      decimals |-> msg.decimals,
      total_supply |-> 0,
      mint |-> <<[minter |-> sender, cap |-> <<>>]>> ]

\* instantiate_data starting from Uint128::one()
instantiate_data_one(sender, msg) ==
    [ name |-> msg.name,
      symbol |-> msg.symbol,
      decimals |-> msg.decimals,
      total_supply |-> 1,
      mint |-> <<[minter |-> sender, cap |-> <<>>]>> ]

\* the TokenInfo built by instantiate
instantiate_data(sender, msg) ==
    [ name |-> msg.name,
      symbol |-> msg.symbol,
      decimals |-> msg.decimals,
      total_supply |-> 0,
      mint |-> <<[minter |-> sender, cap |-> <<>>]>> ]

\* the store after instantiate: set_contract_version, then TOKEN_INFO.save
instantiate(sender, msg) ==
    [ res |-> Ok(<<>>),
      contract |-> <<[contract |-> CONTRACT_NAME, version |-> CONTRACT_VERSION]>>,
      token |-> <<instantiate_data(sender, msg)>> ]

Instantiate(sender, msg) ==
    LET r == instantiate(sender, msg) IN
    /\ CONTRACT' = r.contract
    /\ TOKEN_INFO' = r.token
    /\ minted' = 0
    /\ given' = <<msg>>
    /\ call' = [NoCall EXCEPT !.op = "instantiate", !.sender = sender, !.msg = msg]
    /\ result' = r.res
    /\ replaced' = <<>>
    /\ UNCHANGED <<GAME, BALANCES, lastChosen, writers>>

----------------------------------------------------------------------------
(* execute: ChooseOption *)

\* try_choose_option with && for || in the authorization check: a caller
\* is refused only when no minter is configured
try_choose_option_and(token, game, sender, address, option) ==
    IF token = <<>> THEN [res |-> Err("NotFound"), game |-> game]
    ELSE LET config == token[1] IN
    IF config.mint = <<>>
    THEN [res |-> Err("Unauthorized"), game |-> game]
    ELSE IF addr_canonicalize(address) = <<>> THEN [res |-> Panic, game |-> game]
    ELSE LET address_to_save_option == addr_humanize(addr_canonicalize(address)[1]) IN
         [ res |-> Ok(<<"saved_option", option>>),
           game |-> [game EXCEPT ![address_to_save_option] = <<option>>] ]

\* try_choose_option saving the address text in place of the option
try_choose_option_address(token, game, sender, address, option) ==
    IF token = <<>> THEN [res |-> Err("NotFound"), game |-> game]
    ELSE LET config == token[1] IN
    IF config.mint = <<>> \/ config.mint[1].minter # sender
    THEN [res |-> Err("Unauthorized"), game |-> game]
    ELSE IF addr_canonicalize(address) = <<>> THEN [res |-> Panic, game |-> game]
    ELSE LET address_to_save_option == addr_humanize(addr_canonicalize(address)[1]) IN
         [ res |-> Ok(<<"saved_option", option>>),
           game |-> [game EXCEPT ![address_to_save_option] = <<address>>] ]

\* try_choose_option that keeps an entry already present
try_choose_option_keep(token, game, sender, address, option) ==
    IF token = <<>> THEN [res |-> Err("NotFound"), game |-> game]
    ELSE LET config == token[1] IN
    IF config.mint = <<>> \/ config.mint[1].minter # sender
    THEN [res |-> Err("Unauthorized"), game |-> game]
    ELSE IF addr_canonicalize(address) = <<>> THEN [res |-> Panic, game |-> game]
    ELSE LET address_to_save_option == addr_humanize(addr_canonicalize(address)[1]) IN
         [ res |-> Ok(<<"saved_option", option>>),
           game |-> IF game[address_to_save_option] # <<>> THEN game
                    ELSE [game EXCEPT ![address_to_save_option] = <<option>>] ]

\* try_choose_option normalizing the address before it loads TOKEN_INFO
try_choose_option_early(token, game, sender, address, option) ==
    IF addr_canonicalize(address) = <<>> THEN [res |-> Panic, game |-> game]
    ELSE IF token = <<>> THEN [res |-> Err("NotFound"), game |-> game]
    ELSE LET config == token[1] IN
    IF config.mint = <<>> \/ config.mint[1].minter # sender
    THEN [res |-> Err("Unauthorized"), game |-> game]
    ELSE LET address_to_save_option == addr_humanize(addr_canonicalize(address)[1]) IN
         [ res |-> Ok(<<"saved_option", option>>),
           game |-> [game EXCEPT ![address_to_save_option] = <<option>>] ]

\* try_choose_option that validates the option and refuses an empty one
try_choose_option_validated(token, game, sender, address, option) ==
    IF token = <<>> THEN [res |-> Err("NotFound"), game |-> game]
    ELSE LET config == token[1] IN
    IF config.mint = <<>> \/ config.mint[1].minter # sender
    THEN [res |-> Err("Unauthorized"), game |-> game]
    ELSE IF addr_canonicalize(address) = <<>> THEN [res |-> Panic, game |-> game]
    ELSE IF option = "" THEN [res |-> Err("GenericErr"), game |-> game]
    ELSE LET address_to_save_option == addr_humanize(addr_canonicalize(address)[1]) IN
         [ res |-> Ok(<<"saved_option", option>>),
           game |-> [game EXCEPT ![address_to_save_option] = <<option>>] ]

\* try_choose_option normalizing the address between the load of TOKEN_INFO
\* and the authorization check
try_choose_option_late_auth(token, game, sender, address, option) ==
    IF token = <<>> THEN [res |-> Err("NotFound"), game |-> game]
    ELSE IF addr_canonicalize(address) = <<>> THEN [res |-> Panic, game |-> game]
    ELSE LET config == token[1] IN
    IF config.mint = <<>> \/ config.mint[1].minter # sender
    THEN [res |-> Err("Unauthorized"), game |-> game]
    ELSE LET address_to_save_option == addr_humanize(addr_canonicalize(address)[1]) IN
         [ res |-> Ok(<<"saved_option", option>>),
           game |-> [game EXCEPT ![address_to_save_option] = <<option>>] ]

\* try_choose_option keeping the choice in a single Item: a save drops the
\* entries of the other addresses
try_choose_option_single(token, game, sender, address, option) ==
    IF token = <<>> THEN [res |-> Err("NotFound"), game |-> game]
    ELSE LET config == token[1] IN
    IF config.mint = <<>> \/ config.mint[1].minter # sender
    THEN [res |-> Err("Unauthorized"), game |-> game]
    ELSE IF addr_canonicalize(address) = <<>> THEN [res |-> Panic, game |-> game]
    ELSE LET address_to_save_option == addr_humanize(addr_canonicalize(address)[1]) IN
         [ res |-> Ok(<<"saved_option", option>>),
           game |-> [a \in DOMAIN game |->
                       IF a = address_to_save_option THEN <<option>> ELSE <<>>] ]

\* try_choose_option with a key cut to a prefix the addresses share: a save
\* for one address writes the entry of the others too
try_choose_option_prefix(token, game, sender, address, option) ==
    IF token = <<>> THEN [res |-> Err("NotFound"), game |-> game]
    ELSE LET config == token[1] IN
    IF config.mint = <<>> \/ config.mint[1].minter # sender
    THEN [res |-> Err("Unauthorized"), game |-> game]
    ELSE IF addr_canonicalize(address) = <<>> THEN [res |-> Panic, game |-> game]
    ELSE [ res |-> Ok(<<"saved_option", option>>),
           game |-> [a \in DOMAIN game |-> <<option>>] ]

\* try_choose_option: the result and the GAME map it leaves
try_choose_option(token, game, sender, address, option) ==
    IF token = <<>> THEN [res |-> Err("NotFound"), game |-> game]
    ELSE LET config == token[1] IN
    IF config.mint = <<>> \/ config.mint[1].minter # sender
    THEN [res |-> Err("Unauthorized"), game |-> game]
    ELSE IF addr_canonicalize(address) = <<>> THEN [res |-> Panic, game |-> game]
    ELSE LET address_to_save_option == addr_humanize(addr_canonicalize(address)[1]) IN
         [ res |-> Ok(<<"saved_option", option>>),
           game |-> [game EXCEPT ![address_to_save_option] = <<option>>] ]

\* the Addr a text names, as a set: empty when the text is no address
Named(address) ==
    IF addr_canonicalize(address) = <<>> THEN {}
    ELSE {addr_humanize(addr_canonicalize(address)[1])}

ChooseOption(sender, address, option) ==
    LET r == try_choose_option(TOKEN_INFO, GAME, sender, address, option)
        ok == r.res.outcome = "Ok"
    IN
    /\ GAME' = r.game
    /\ call' = [NoCall EXCEPT !.op = "ChooseOption", !.sender = sender,
                              !.a = address, !.b = option]
    /\ result' = r.res
    /\ lastChosen' = [a \in Addrs |->
            IF ok /\ a \in Named(address) THEN <<option>> ELSE lastChosen[a]]
    /\ replaced' = IF ok THEN lastChosen[CHOOSE a \in Named(address) : TRUE] ELSE <<>>
    /\ writers' = [a \in Addrs |->
            IF ok /\ a \in Named(address) THEN writers[a] \cup {address} ELSE writers[a]]
    /\ UNCHANGED <<CONTRACT, TOKEN_INFO, BALANCES, minted, given>>

----------------------------------------------------------------------------
(* execute: Mint, delegated to cw20_base::contract::execute_mint *)

execute_mint(token, balances, sender, recipient, amount) ==
    LET fail(kind) == [res |-> Err(kind), token |-> token, balances |-> balances] IN
    IF amount = 0 THEN fail("InvalidZeroAmount")
    ELSE IF token = <<>> THEN fail("NotFound")
    ELSE LET config == token[1] IN
    IF config.mint = <<>> \/ config.mint[1].minter # sender THEN fail("Unauthorized")
    ELSE IF config.mint[1].cap # <<>> /\ config.total_supply + amount > config.mint[1].cap[1]
    THEN fail("CannotExceedCap")
    ELSE IF addr_validate(recipient) = <<>> THEN fail("GenericErr")
    ELSE [ res |-> Ok(<<"mint", recipient, amount>>),
           token |-> <<[config EXCEPT !.total_supply = @ + amount]>>,
           balances |-> [balances EXCEPT ![recipient] = @ + amount] ]

\* execute: the dispatch of ExecuteMsg::Mint
execute_Mint(token, balances, sender, recipient, amount) ==
    execute_mint(token, balances, sender, recipient, amount)

Mint(sender, recipient, amount) ==
    LET r == execute_Mint(TOKEN_INFO, BALANCES, sender, recipient, amount) IN
    \* the amounts stay within the model's range
    /\ TOKEN_INFO # <<>> => TOKEN_INFO[1].total_supply + amount <= MaxSupply
    /\ recipient \in ValidTexts => BALANCES[recipient] + amount <= MaxSupply
    /\ TOKEN_INFO' = r.token
    /\ BALANCES' = r.balances
    /\ minted' = IF r.res.outcome = "Ok" THEN minted + amount ELSE minted
    /\ call' = [NoCall EXCEPT !.op = "Mint", !.sender = sender,
                              !.a = recipient, !.amount = amount]
    /\ result' = r.res
    /\ replaced' = <<>>
    /\ UNCHANGED <<CONTRACT, GAME, lastChosen, writers, given>>

----------------------------------------------------------------------------
(* query *)

\* query_compare looking the address texts up as given, not normalized
query_compare_raw(game, address_one, address_two) ==
    IF addr_canonicalize(address_one) = <<>> THEN Panic
    ELSE IF addr_canonicalize(address_two) = <<>> THEN Panic
    ELSE LET option_first_addr ==
                 IF address_one \in DOMAIN game THEN game[address_one] ELSE <<>>
             option_second_addr ==
                 IF address_two \in DOMAIN game THEN game[address_two] ELSE <<>>
         IN IF option_first_addr = <<>> THEN Panic
            ELSE IF option_second_addr = <<>> THEN Panic
            ELSE Ok([ option_addr_one |-> option_first_addr[1],
                      option_addr_two |-> option_second_addr[1] ])

\* query_compare with the two options in each other's slot
query_compare_swapped(game, address_one, address_two) ==
    IF addr_canonicalize(address_one) = <<>> THEN Panic
    ELSE IF addr_canonicalize(address_two) = <<>> THEN Panic
    ELSE LET first_address == addr_humanize(addr_canonicalize(address_one)[1])
             second_address == addr_humanize(addr_canonicalize(address_two)[1])
             option_first_addr == game[first_address]
             option_second_addr == game[second_address]
         IN IF option_first_addr = <<>> THEN Panic
            ELSE IF option_second_addr = <<>> THEN Panic
            ELSE Ok([ option_addr_one |-> option_second_addr[1],
                      option_addr_two |-> option_first_addr[1] ])

\* query_compare: the StdResult<CompareResponse> it returns, or the abort
query_compare(game, address_one, address_two) ==
    IF addr_canonicalize(address_one) = <<>> THEN Panic
    ELSE IF addr_canonicalize(address_two) = <<>> THEN Panic
    ELSE LET first_address == addr_humanize(addr_canonicalize(address_one)[1])
             second_address == addr_humanize(addr_canonicalize(address_two)[1])
             option_first_addr == game[first_address]
             option_second_addr == game[second_address]
         IN IF option_first_addr = <<>> THEN Panic
            ELSE IF option_second_addr = <<>> THEN Panic
            ELSE Ok([ option_addr_one |-> option_first_addr[1],
                      option_addr_two |-> option_second_addr[1] ])

\* cw20_base::contract::query_token_info
query_token_info(token) ==
    IF token = <<>> THEN Err("NotFound")
    ELSE Ok([ name |-> token[1].name, symbol |-> token[1].symbol,
              decimals |-> token[1].decimals,
              total_supply |-> token[1].total_supply ])

\* query writing an empty choice for an address it finds none for
query_default(token, game, msg) ==
    IF msg.op = "Compare"
    THEN [ res |-> query_compare(game, msg.a, msg.b),
           token |-> token,
           game |-> [a \in DOMAIN game |->
                       IF a \in Named(msg.a) \cup Named(msg.b) /\ game[a] = <<>>
                       THEN <<"">> ELSE game[a]] ]
    ELSE [ res |-> query_token_info(token), token |-> token, game |-> game ]

\* query: the dispatch of QueryMsg; it gets the store as Deps, read-only
query(token, game, msg) ==
    IF msg.op = "Compare"
    THEN [ res |-> query_compare(game, msg.a, msg.b), token |-> token, game |-> game ]
    ELSE [ res |-> query_token_info(token), token |-> token, game |-> game ]

Compare(address_one, address_two) ==
    LET msg == [NoCall EXCEPT !.op = "Compare", !.a = address_one, !.b = address_two]
        r == query(TOKEN_INFO, GAME, msg)
    IN
    /\ call' = msg
    /\ result' = r.res
    /\ TOKEN_INFO' = r.token
    /\ GAME' = r.game
    /\ replaced' = <<>>
    /\ UNCHANGED <<CONTRACT, BALANCES, lastChosen, writers, minted, given>>

TokenInfo ==
    LET msg == [NoCall EXCEPT !.op = "TokenInfo"]
        r == query(TOKEN_INFO, GAME, msg)
    IN
    /\ call' = msg
    /\ result' = r.res
    /\ TOKEN_INFO' = r.token
    /\ GAME' = r.game
    /\ replaced' = <<>>
    /\ UNCHANGED <<CONTRACT, BALANCES, lastChosen, writers, minted, given>>

----------------------------------------------------------------------------

Init ==
    /\ CONTRACT = <<>>
    /\ TOKEN_INFO = <<>>
    /\ GAME = [a \in Addrs |-> <<>>]
    /\ BALANCES = [t \in ValidTexts |-> 0]
    /\ call = NoCall
    /\ result = Ok(<<>>)
    /\ lastChosen = [a \in Addrs |-> <<>>]
    /\ replaced = <<>>
    /\ writers = [a \in Addrs |-> {}]
    /\ minted = 0
    /\ given = <<>>

Next ==
    \/ \E s \in Senders, m \in Msgs : Instantiate(s, m)
    \/ \E s \in Senders, a \in AddrTexts, o \in Options : ChooseOption(s, a, o)
    \/ \E s \in Senders, r \in Recipients, n \in Amounts : Mint(s, r, n)
    \/ \E a \in AddrTexts, b \in AddrTexts : Compare(a, b)
    \/ TokenInfo

Spec == Init /\ [][Next]_vars

----------------------------------------------------------------------------
(* Properties *)

\* the configured controller, as a set: empty before instantiate
Minter(token) ==
    IF token = <<>> \/ token[1].mint = <<>> THEN {} ELSE {token[1].mint[1].minter}

Supply(token) == IF token = <<>> THEN 0 ELSE token[1].total_supply

ChoseOk(c, r) == c.op = "ChooseOption" /\ r.outcome = "Ok"

\* C1: a ChooseOption whose caller is not the configured controller fails
\* with Unauthorized, whatever the address and option, and leaves the choice
\* mapping and the ledger metadata as they were: every Compare answers as
\* before the call.
C1_UnauthorizedChoose ==
    [][ (call'.op = "ChooseOption" /\ Minter(TOKEN_INFO) # {}
             /\ call'.sender \notin Minter(TOKEN_INFO))
        => /\ result'.outcome = "Unauthorized"
           /\ GAME' = GAME
           /\ TOKEN_INFO' = TOKEN_INFO
           /\ \A a, b \in AddrTexts :
                 query_compare(GAME', a, b) = query_compare(GAME, a, b) ]_vars

C1_Witness ==
    /\ call.op = "ChooseOption"
    /\ call.sender \notin Minter(TOKEN_INFO)
    /\ result.outcome = "Unauthorized"
    /\ \E a \in Named(call.a) : GAME[a] # <<>> /\ GAME[a] # <<call.b>>

\* C2: after a successful ChooseOption(A, c) by the controller with no later
\* successful ChooseOption for A, a Compare that includes A, the other
\* address having a recorded choice too, returns exactly c in A's slot.
C2_RoundTrip ==
    (/\ call.op = "Compare"
     /\ \A a \in Named(call.a) \cup Named(call.b) : lastChosen[a] # <<>>
     /\ Named(call.a) # {} /\ Named(call.b) # {})
    => /\ result.outcome = "Ok"
       /\ \A a \in Named(call.a) : result.data.option_addr_one = lastChosen[a][1]
       /\ \A b \in Named(call.b) : result.data.option_addr_two = lastChosen[b][1]

C2_Witness ==
    /\ call.op = "Compare"
    /\ call.a = "ADDRR0000" /\ call.b = "addrr0001"
    /\ result.outcome = "Ok"
    /\ result.data.option_addr_one = ""
    /\ result.data.option_addr_two = "Kamien"

\* C3: a successful ChooseOption(A, y) makes Compare return y for A, also
\* when A held another value before; every other step, failed calls
\* included, leaves what Compare returns for A as it was.
C3_Overwrite ==
    [][ /\ ChoseOk(call', result') =>
             \A a \in Named(call'.a) :
                 query_compare(GAME', a, a)
                   = Ok([option_addr_one |-> call'.b, option_addr_two |-> call'.b])
        /\ \A a \in Addrs :
             ~(ChoseOk(call', result') /\ a \in Named(call'.a))
                => query_compare(GAME', a, a) = query_compare(GAME, a, a) ]_vars

C3_Witness ==
    /\ ChoseOk(call, result)
    /\ replaced # <<>> /\ replaced # <<call.b>>
    /\ \A a \in Named(call.a) : GAME[a] = <<call.b>>

\* C4 (as claimed): a Compare with an address that has no recorded choice
\* ends with the error NotFound as its outcome.
C4_CompareNotFound ==
    (/\ call.op = "Compare"
     /\ Named(call.a) # {} /\ Named(call.b) # {}
     /\ \E a \in Named(call.a) \cup Named(call.b) : lastChosen[a] = <<>>)
    => result.outcome = "NotFound"

\* C5 (as claimed): an instantiate after a successful instantiate fails with
\* StateConflict and leaves the ledger metadata unchanged.
C5_Reinitialize ==
    [][ (call'.op = "instantiate" /\ TOKEN_INFO # <<>>)
        => result'.outcome = "StateConflict" /\ TOKEN_INFO' = TOKEN_INFO ]_vars

\* C6 (as claimed): a Mint by a caller other than the controller fails and
\* changes neither the total supply nor a balance; the total supply changes
\* only in a successful Mint by the controller.
C6_OnlyControllerMints ==
    [][ /\ (call'.op = "Mint" /\ call'.sender \notin Minter(TOKEN_INFO))
           => /\ result'.outcome # "Ok"
              /\ Supply(TOKEN_INFO') = Supply(TOKEN_INFO)
              /\ BALANCES' = BALANCES
        /\ Supply(TOKEN_INFO') # Supply(TOKEN_INFO)
           => /\ call'.op = "Mint" /\ result'.outcome = "Ok"
              /\ call'.sender \in Minter(TOKEN_INFO) ]_vars

\* C7: right after instantiate by X with (name, symbol, decimals) the
\* metadata holds exactly these, total supply zero, minter X and no cap;
\* TokenInfo returns {name, symbol, decimals, 0}; a ChooseOption or a
\* nonzero Mint by X passes the authorization check.
C7_InstantiateData ==
    call.op = "instantiate"
    => /\ result.outcome = "Ok"
       /\ TOKEN_INFO = << [ name |-> call.msg.name, symbol |-> call.msg.symbol,
                            decimals |-> call.msg.decimals, total_supply |-> 0,
                            mint |-> <<[minter |-> call.sender, cap |-> <<>>]>> ] >>
       /\ query_token_info(TOKEN_INFO)
            = Ok([ name |-> call.msg.name, symbol |-> call.msg.symbol,
                   decimals |-> call.msg.decimals, total_supply |-> 0 ])
       /\ \A a \in AddrTexts, o \in Options :
            try_choose_option(TOKEN_INFO, GAME, call.sender, a, o).res.outcome
              = IF Named(a) = {} THEN "Panic" ELSE "Ok"
       /\ \A r \in Recipients, n \in Amounts \ {0} :
            execute_Mint(TOKEN_INFO, BALANCES, call.sender, r, n).res.outcome
              = IF r \in ValidTexts THEN "Ok" ELSE "GenericErr"

C7_Witness ==
    /\ call.op = "instantiate"
    /\ call.sender = "other"
    /\ call.msg.decimals = 18
    /\ TOKEN_INFO[1].name = "AUTO"

C9_SlotsAligned ==
    \A a \in Named(call.a), b \in Named(call.b) :
       (call.op = "Compare" /\ GAME[a] # <<>> /\ GAME[b] # <<>>)
       => result = Ok([option_addr_one |-> GAME[a][1], option_addr_two |-> GAME[b][1]])

C9_Witness ==
    /\ call.op = "Compare"
    /\ call.a = "addrr0000" /\ call.b = "addrr0001"
    /\ GAME["addrr0000"] = <<"Papier">> /\ GAME["addrr0001"] = <<"Kamien">>
    /\ result = Ok([option_addr_one |-> "Papier", option_addr_two |-> "Kamien"])

\* C10: before any instantiate every ChooseOption fails with NotFound,
\* whatever the caller, address and option, and the choice mapping is empty.
C10_ChooseBeforeInstantiate ==
    TOKEN_INFO = <<>>
    => /\ \A a \in Addrs : GAME[a] = <<>>
       /\ call.op = "ChooseOption" => result.outcome = "NotFound"

C10_Witness ==
    /\ TOKEN_INFO = <<>>
    /\ call.op = "ChooseOption" /\ call.a = "x"
    /\ result.outcome = "NotFound"

\* C11 (as claimed): a ChooseOption by the controller, or a Compare, whose
\* address text fails normalization ends with the error InvalidAddress as its
\* outcome, and the choice mapping is unchanged.
C11_InvalidAddress ==
    [][ (\/ /\ call'.op = "ChooseOption"
            /\ call'.sender \in Minter(TOKEN_INFO)
            /\ Named(call'.a) = {}
         \/ /\ call'.op = "Compare"
            /\ (Named(call'.a) = {} \/ Named(call'.b) = {}))
        => result'.outcome = "InvalidAddress" /\ GAME' = GAME ]_vars

C15_ControllerFixed ==
    [][ TOKEN_INFO # <<>> => Minter(TOKEN_INFO') = Minter(TOKEN_INFO) ]_vars

\* C16: ChooseOption checks metadata, then authorization, then the address:
\* not instantiated gives NotFound whatever the caller and address; a caller
\* other than the controller gets Unauthorized also for a malformed address;
\* the normalization failure is met only by the controller.
C16_CheckOrder ==
    call.op = "ChooseOption"
    => /\ TOKEN_INFO = <<>> => result.outcome = "NotFound"
       /\ (TOKEN_INFO # <<>> /\ call.sender \notin Minter(TOKEN_INFO))
             => result.outcome = "Unauthorized"
       /\ result.outcome = "Panic"
             => call.sender \in Minter(TOKEN_INFO) /\ Named(call.a) = {}
       /\ (call.sender \in Minter(TOKEN_INFO) /\ Named(call.a) = {})
             => result.outcome = "Panic"

C16_Witness ==
    /\ call.op = "ChooseOption"
    /\ TOKEN_INFO # <<>>
    /\ call.sender \notin Minter(TOKEN_INFO)
    /\ call.a = "x"
    /\ result.outcome = "Unauthorized"

\* the addresses that have an entry in the choice mapping
Keys(game) == { a \in DOMAIN game : game[a] # <<>> }

\* C12: the storage key is the canonical address for writes and reads: after
\* a successful ChooseOption(t1, c), Compare given any text t2 of the same
\* identity returns c, and a ChooseOption through another text of an identity
\* that has an entry overwrites that entry, adding none.
C12_CanonicalKey ==
    [][ ChoseOk(call', result') =>
          /\ \A t2 \in AddrTexts :
               (Named(t2) # {} /\ Named(t2) = Named(call'.a))
               => query_compare(GAME', t2, t2)
                    = Ok([option_addr_one |-> call'.b, option_addr_two |-> call'.b])
          /\ Keys(GAME') = Keys(GAME) \cup Named(call'.a) ]_vars

C12_Witness ==
    /\ ChoseOk(call, result)
    /\ call.a = "ADDRR0000"
    /\ writers["addrr0000"] = {"addrr0000", "ADDRR0000"}
    /\ replaced # <<>> /\ replaced # <<call.b>>
    /\ Keys(GAME) = {"addrr0000"}
    /\ GAME["addrr0000"] = <<call.b>>

\* C14: the keys of the choice mapping are exactly the addresses for which a
\* ChooseOption has succeeded so far, and no call of any kind removes a key.
C14_KeysOnlyGrow ==
    [][ /\ Keys(GAME') = { a \in Addrs : writers'[a] # {} }
        /\ Keys(GAME) \subseteq Keys(GAME') ]_vars

C14_Witness ==
    /\ call.op = "instantiate"
    /\ Keys(GAME) = {"addrr0001"}
    /\ writers["addrr0000"] = {}

\* C17: a successful ChooseOption(A, c) changes no entry of another address
\* and nothing of the ledger (metadata, total supply, balances); a successful
\* Mint changes no entry of the choice mapping.
C17_LocalWrites ==
    [][ /\ ChoseOk(call', result') =>
             /\ \A b \in Addrs \ Named(call'.a) : GAME'[b] = GAME[b]
             /\ TOKEN_INFO' = TOKEN_INFO
             /\ BALANCES' = BALANCES
             /\ CONTRACT' = CONTRACT
        /\ (call'.op = "Mint" /\ result'.outcome = "Ok") => GAME' = GAME ]_vars

C17_Witness ==
    /\ ChoseOk(call, result)
    /\ call.a = "addrr0000"
    /\ GAME["addrr0001"] # <<>> /\ GAME["addrr0001"] # <<call.b>>
    /\ Supply(TOKEN_INFO) = 1
    /\ BALANCES["addrr0000"] = 1

\* C18: a Compare or TokenInfo, succeeding or not, leaves the choice mapping
\* and the ledger unchanged, so the same query asked again gives the outcome
\* it gave.
C18_QueriesReadOnly ==
    [][ call'.op \in {"Compare", "TokenInfo"} =>
          /\ store' = store
          /\ result' = query(TOKEN_INFO', GAME', call').res ]_vars

C18_Witness ==
    /\ call.op = "Compare"
    /\ call.a = "addrr0000" /\ call.b = "addrr0001"
    /\ result.outcome = "Panic"
    /\ Keys(GAME) = {"addrr0000"}
    /\ TOKEN_INFO # <<>>

====
